---- MODULE Spec2Model ----
(***************************************************************************)
(* A model of Argh, the single-header command line parser (the templated   *)
(* variant with m_remaining_args).  Text is modelled as a sequence of      *)
(* one-character strings so that the stream conversions (operator>> and    *)
(* std::getline) are computed character by character, as the library does. *)
(* The float instantiations are not modelled: they take the same           *)
(* OptionImpl / MultiOptionImpl code paths as int.                         *)
(* The repository also holds the header without the CharT parameter        *)
(* (src/argh.h); it differs in how OptionImpl<std::string> and              *)
(* MultiOptionImpl<std::string> read a value, and the model has both.       *)
(***************************************************************************)
EXTENDS Integers, Sequences, FiniteSets, TLC

VARIABLES
  header,            \* the header the host was built with
  m_delim,           \* Argh::m_delim
  m_options,         \* Argh::m_options, in registration order
  cells,             \* the host's variables; cells[i] is bound by m_options[i]
  m_remaining_args,  \* Argh::m_remaining_args
  call,              \* the last public call, its arguments and its result
  ncalls,            \* number of parse/load/parseEnv calls made so far
  pc                 \* "run", or "aborted" once the process was terminated

vars == <<header, m_delim, m_options, cells, m_remaining_args, call, ncalls, pc>>

----------------------------------------------------------------------------
(* Bounds of the model. *)

MaxOptions == 2
MaxTokens == 2
MaxCalls == 2

----------------------------------------------------------------------------
(* Text. *)

NameA == <<"-", "-", "a">>
NameB == <<"-", "-", "b">>
TokOne == <<"1">>
TokLine == <<"-", "-", "a", " ", "1", "|", "2">>
TokMulti == <<"1", "|", "2">>
TokOld == <<"O", "l", "d">>

TxtSpaced == <<" ", "a", " ", "b", " ">>
TxtThree == <<"a", " ", "b", "|", "c", "|", "d">>
TxtGap == <<"5", "|", "|", "7">>
TxtLead == <<"|", "7">>
TxtTrail == <<"7", "|">>
TxtEmpty == <<>>

Names == {NameA, NameB}
Tokens == {NameA, NameB, TokOne, TokLine}
Delims == {",", "|"}
Required == {FALSE}

(* The values handed to parse after a name in the registry of text and     *)
(* multi-value options.                                                     *)
ValueTexts == {TokOne, TxtSpaced, TxtThree, TxtGap, TxtLead, TxtTrail, TxtEmpty}

(* The two headers of the repository. *)
Headers == {"argh.h", "templated"}

DigitVal == ("0" :> 0) @@ ("1" :> 1) @@ ("2" :> 2) @@ ("3" :> 3) @@ ("4" :> 4)
            @@ ("5" :> 5) @@ ("6" :> 6) @@ ("7" :> 7) @@ ("8" :> 8) @@ ("9" :> 9)

isdigit(c) == c \in DOMAIN DigitVal

isspace(c) == c \in {" ", "\t", "\n", "\r"}

(* The sentry of a formatted input function: skips leading whitespace and   *)
(* returns the position of the first other character, Len(s) + 1 at eof.    *)
RECURSIVE SkipWs(_, _)
SkipWs(s, p) ==
  IF p <= Len(s) /\ isspace(s[p]) THEN SkipWs(s, p + 1) ELSE p

(* The range of int. *)
IntMax == 2147483647
IntMin == 0 - IntMax - 1

(* Stage 2 of num_get for a decimal integer: accumulates the digits from p; *)
(* big is set once the magnitude exceeds IntMax.                            *)
RECURSIVE Digits(_, _, _)
Digits(s, p, acc) ==
  IF p <= Len(s) /\ isdigit(s[p])
    THEN IF acc.big \/ acc.n > (IntMax - DigitVal[s[p]]) \div 10
           THEN Digits(s, p + 1, [n |-> IntMax, any |-> TRUE, big |-> TRUE])
           ELSE Digits(s, p + 1, [n |-> acc.n * 10 + DigitVal[s[p]], any |-> TRUE,
                                  big |-> FALSE])
    ELSE acc

(* Stage 3 of num_get for int: 0 with failbit when no digit was read, the   *)
(* closest bound with failbit when the number is out of range.              *)
Stage3(d, neg) ==
  IF ~d.any THEN [v |-> 0, fail |-> TRUE]
  ELSE IF d.big THEN [v |-> IF neg THEN IntMin ELSE IntMax, fail |-> TRUE]
  ELSE [v |-> IF neg THEN 0 - d.n ELSE d.n, fail |-> FALSE]

(* num_get::get for int from position p, after the sentry: an optional      *)
(* sign, then digits.                                                       *)
NumGet(s, p) ==
  IF p <= Len(s) /\ s[p] \in {"+", "-"}
    THEN Stage3(Digits(s, p + 1, [n |-> 0, any |-> FALSE, big |-> FALSE]), s[p] = "-")
    ELSE Stage3(Digits(s, p, [n |-> 0, any |-> FALSE, big |-> FALSE]), FALSE)

(* `stringstream ss(val); ss >> m_var;` for int, the sentry having stopped  *)
(* at p: [v, fail].  When the sentry fails (empty or blank text) the        *)
(* variable is not written.                                                 *)
ExtractIntAt(old, s, p) ==
  IF p > Len(s) THEN [v |-> old, fail |-> TRUE] ELSE NumGet(s, p)

ExtractInt(old, s) == ExtractIntAt(old, s, SkipWs(s, 1))

(* The same for bool without boolalpha: read as an integer r; 0 stores      *)
(* false, 1 stores true, anything else stores true and sets failbit.        *)
BoolOf(r) ==
  IF r.v = 0 THEN [v |-> FALSE, fail |-> r.fail]
  ELSE IF r.v = 1 THEN [v |-> TRUE, fail |-> r.fail]
  ELSE [v |-> TRUE, fail |-> TRUE]

ExtractBoolAt(old, s, p) ==
  IF p > Len(s) THEN [v |-> old, fail |-> TRUE] ELSE BoolOf(NumGet(s, p))

ExtractBool(old, s) == ExtractBoolAt(old, s, SkipWs(s, 1))

(* `ss >> m_var` for std::string from position p, after the sentry: the     *)
(* characters up to the next whitespace.                                    *)
RECURSIVE WordAt(_, _)
WordAt(s, p) ==
  IF p <= Len(s) /\ ~isspace(s[p]) THEN <<s[p]>> \o WordAt(s, p + 1) ELSE <<>>

ExtractStringAt(old, s, p) == IF p > Len(s) THEN old ELSE WordAt(s, p)

ExtractString(old, s) == ExtractStringAt(old, s, SkipWs(s, 1))

(* The loop `for (string val_str; std::getline(ss, val_str, delim);)`:      *)
(* the segments std::getline delivers from position p on.  getline fails,   *)
(* ending the loop, when it is called at end of text (cur is empty there    *)
(* exactly when the text is empty or its last character was a delimiter).   *)
RECURSIVE GetLines(_, _, _, _)
GetLines(s, delim, p, cur) ==
  IF p > Len(s) THEN (IF cur = <<>> THEN <<>> ELSE <<cur>>)
  ELSE IF s[p] = delim THEN <<cur>> \o GetLines(s, delim, p + 1, <<>>)
  ELSE GetLines(s, delim, p + 1, Append(cur, s[p]))

getline(s, delim) == GetLines(s, delim, 1, <<>>)

----------------------------------------------------------------------------
(* The option classes.  An option and the host variable it holds a reference *)
(* to travel together as a binding [o |-> the option, c |-> the variable].   *)

Option(kind, name, required, default_val) ==
  [kind |-> kind, m_name |-> name, m_required |-> required, m_parsed |-> FALSE,
   m_default_val |-> default_val, m_msg |-> <<>>]

(* The constructors with the description given: `m_msg = msg`. *)
Described(b, msg) == [b EXCEPT !.o.m_msg = msg]

FlagImpl(flag, name) == [o |-> Option("flag", name, FALSE, <<>>), c |-> FALSE]

Option_setParsed(b, parsed) == [b EXCEPT !.o.m_parsed = parsed]

FlagImpl_setParsed(b, parsed) == [b EXCEPT !.o.m_parsed = parsed, !.c = parsed]

FlagImpl_setValue_Extracts(b, val) == [b EXCEPT !.c = ExtractBool(b.c, val).v]

FlagImpl_setValue(b, val) == b

OptionImpl_setValue(b, val) ==
  CASE b.o.kind = "int" -> [b EXCEPT !.c = ExtractInt(b.c, val).v]
    [] b.o.kind = "bool" -> [b EXCEPT !.c = ExtractBool(b.c, val).v]
    [] b.o.kind = "gstring" -> [b EXCEPT !.c = val]

OptionStringImpl_setValue(b, val) == [b EXCEPT !.c = val]

(* OptionImpl<std::string>::setValue of src/argh.h: the text is extracted   *)
(* from a stream like a number.                                             *)
OptionImplStd_setValue(b, val) == [b EXCEPT !.c = ExtractString(b.c, val)]

(* The else branch of MultiOptionImpl::setValue: `T elem;` is not           *)
(* initialized, each segment is extracted into it and it is pushed whether  *)
(* or not the extraction wrote it.                                          *)
RECURSIVE PushElems(_, _, _, _)
PushElems(segs, k, elem, m_var) ==
  IF k > Len(segs) THEN m_var
  ELSE PushElems(segs, k + 1, ExtractInt(elem, segs[k]).v,
                 Append(m_var, ExtractInt(elem, segs[k]).v))

clear_Keeps(m_var) == m_var

(* m_var.clear() *)
clear(m_var) == <<>>

(* MultiOptionImpl<std::string>::setValue of src/argh.h: `T elem;` is an    *)
(* empty string, each segment is extracted into it and it is pushed.        *)
RECURSIVE PushWords(_, _, _, _)
PushWords(segs, k, elem, m_var) ==
  IF k > Len(segs) THEN m_var
  ELSE PushWords(segs, k + 1, ExtractString(elem, segs[k]),
                 Append(m_var, ExtractString(elem, segs[k])))

MultiOptionImplStd_setValue(b, val, delim) ==
  [b EXCEPT !.c = PushWords(getline(val, delim), 1, <<>>, clear(b.c))]

MultiOptionImpl_setValue(b, val, delim, elem) ==
  IF b.o.kind \in {"multistring", "gmultistring"}
    THEN [b EXCEPT !.c = clear(b.c) \o getline(val, delim)]
    ELSE [b EXCEPT !.c = PushElems(getline(val, delim), 1, elem, clear(b.c))]

MultiOptionStringImpl_setValue(b, val, delim) ==
  [b EXCEPT !.c = clear(b.c) \o getline(val, delim)]

(* The virtual calls o->setParsed(parsed) and o->setValue(val). *)
setParsed(b, parsed) ==
  IF b.o.kind = "flag" THEN FlagImpl_setParsed(b, parsed)
  ELSE Option_setParsed(b, parsed)

setValue(b, val, delim, elem) ==
  CASE b.o.kind = "flag" -> FlagImpl_setValue(b, val)
    [] b.o.kind \in {"int", "bool", "gstring"} -> OptionImpl_setValue(b, val)
    [] b.o.kind = "string" -> OptionStringImpl_setValue(b, val)
    [] b.o.kind \in {"multiint", "gmultistring"} ->
         MultiOptionImpl_setValue(b, val, delim, elem)
    [] b.o.kind = "multistring" -> MultiOptionStringImpl_setValue(b, val, delim)
    [] b.o.kind = "sstring" -> OptionImplStd_setValue(b, val)
    [] b.o.kind = "smultistring" -> MultiOptionImplStd_setValue(b, val, delim)

(* The constructors; var is what the host variable held before. *)
OptionImpl_KeepsVar(kind, var, default_val, name, required) ==
  [o |-> Option(kind, name, required, default_val), c |-> var]

OptionImpl(kind, var, default_val, name, required) ==
  [o |-> Option(kind, name, required, default_val), c |-> default_val]

(* The call of setValue in the constructor is not dispatched to a derived   *)
(* class: it runs MultiOptionImpl::setValue.                                *)
MultiOptionImpl(kind, var, default_vals, name, required, delim, elem) ==
  MultiOptionImpl_setValue([o |-> Option(kind, name, required, default_vals), c |-> var],
                           default_vals, delim, elem)

(* MultiOptionImpl<std::string>::MultiOptionImpl of src/argh.h. *)
MultiOptionImplStd(kind, var, default_vals, name, required, delim) ==
  MultiOptionImplStd_setValue([o |-> Option(kind, name, required, default_vals), c |-> var],
                              default_vals, delim)

(* The values an uninitialized int may hold. *)
Indeterminate == {0, 9}

(* `T elem;` exists only in the setValue of a multi-value option of         *)
(* numeric type; without such an option its value is immaterial.            *)
ElemValues(opts) ==
  IF \E i \in 1..Len(opts) : opts[i].kind = "multiint" THEN Indeterminate ELSE {0}

----------------------------------------------------------------------------
(* Argh. *)

Bindings == [i \in 1..Len(m_options) |-> [o |-> m_options[i], c |-> cells[i]]]

MatchOption_Resets(b, argv, i, delim, elem) ==
  IF argv[i] = b.o.m_name
    THEN IF i + 1 <= Len(argv)
           THEN setValue(setParsed(b, TRUE), argv[i + 1], delim, elem)
           ELSE setParsed(b, TRUE)
    ELSE setParsed(b, FALSE)

MatchOption_NoBound(b, argv, i, delim, elem) ==
  IF argv[i] = b.o.m_name
    THEN setValue(setParsed(b, TRUE), IF i + 1 <= Len(argv) THEN argv[i + 1] ELSE <<>>,
                  delim, elem)
    ELSE b

MatchOption_AnyName(b, argv, i, delim, elem) ==
  IF i + 1 <= Len(argv)
    THEN setValue(IF argv[i] = b.o.m_name THEN setParsed(b, TRUE) ELSE b,
                  argv[i + 1], delim, elem)
    ELSE IF argv[i] = b.o.m_name THEN setParsed(b, TRUE) ELSE b

(* The body of the loop over the options in parse, for the binding b and    *)
(* the token i: the binding afterwards.                                     *)
MatchOption(b, argv, i, delim, elem) ==
  IF argv[i] = b.o.m_name
    THEN IF i + 1 <= Len(argv)
           THEN setValue(setParsed(b, TRUE), argv[i + 1], delim, elem)
           ELSE setParsed(b, TRUE)
    ELSE b

MarkOption_NameOnly(is_option, hit, i) ==
  [k \in DOMAIN is_option |-> is_option[k] \/ (hit /\ k = i)]

(* The writes to is_option in that body: positions i and, when it exists,   *)
(* i + 1 are marked when the name matched.                                  *)
MarkOption(is_option, hit, i) ==
  [k \in DOMAIN is_option |-> is_option[k] \/ (hit /\ k \in {i, i + 1})]

RECURSIVE ForOptions_FirstMatch(_, _, _, _, _, _)
ForOptions_FirstMatch(S, argv, i, j, delim, elem) ==
  IF j > Len(S.bs) THEN S
  ELSE IF argv[i] = S.bs[j].o.m_name
    THEN [bs |-> [S.bs EXCEPT ![j] = MatchOption(S.bs[j], argv, i, delim, elem)],
          is_option |-> MarkOption(S.is_option, TRUE, i)]
    ELSE ForOptions_FirstMatch(S, argv, i, j + 1, delim, elem)

RECURSIVE ForOptions_FlagKeepsNext(_, _, _, _, _, _)
ForOptions_FlagKeepsNext(S, argv, i, j, delim, elem) ==
  IF j > Len(S.bs) THEN S
  ELSE ForOptions_FlagKeepsNext(
         [bs |-> [S.bs EXCEPT ![j] = MatchOption(S.bs[j], argv, i, delim, elem)],
          is_option |->
            [k \in DOMAIN S.is_option |->
               \/ S.is_option[k]
               \/ /\ argv[i] = S.bs[j].o.m_name
                  /\ k \in (IF S.bs[j].o.kind = "flag" THEN {i} ELSE {i, i + 1})]],
         argv, i, j + 1, delim, elem)

(* The loop `for (auto o : m_options)` at token i; S is [bs, is_option]. *)
RECURSIVE ForOptions(_, _, _, _, _, _)
ForOptions(S, argv, i, j, delim, elem) ==
  IF j > Len(S.bs) THEN S
  ELSE ForOptions([bs |-> [S.bs EXCEPT ![j] = MatchOption(S.bs[j], argv, i, delim, elem)],
                   is_option |-> MarkOption(S.is_option, argv[i] = S.bs[j].o.m_name, i)],
                  argv, i, j + 1, delim, elem)

RECURSIVE ForTokens_SkipsValue(_, _, _, _, _)
ForTokens_SkipsValue(S, argv, i, delim, elem) ==
  IF i > Len(argv) THEN S
  ELSE ForTokens_SkipsValue(ForOptions(S, argv, i, 1, delim, elem), argv,
                            IF \E j \in 1..Len(S.bs) : argv[i] = S.bs[j].o.m_name
                              THEN i + 2 ELSE i + 1,
                            delim, elem)

(* The loop `for (int i = 0; i < argc; ++i)` of parse. *)
RECURSIVE ForTokens(_, _, _, _, _)
ForTokens(S, argv, i, delim, elem) ==
  IF i > Len(argv) THEN S
  ELSE ForTokens(ForOptions(S, argv, i, 1, delim, elem), argv, i + 1, delim, elem)

(* The last loop of parse: the tokens not marked are pushed back. *)
RECURSIVE PushRemaining(_, _, _, _)
PushRemaining(rem, argv, is_option, i) ==
  IF i > Len(argv) THEN rem
  ELSE PushRemaining(IF ~is_option[i] THEN Append(rem, argv[i]) ELSE rem,
                     argv, is_option, i + 1)

Remaining(S, rem, argv) ==
  [bs |-> S.bs, rem |-> PushRemaining(rem, argv, S.is_option, 1)]

(* Argh::parse on the bindings bs and m_remaining_args rem: the new         *)
(* [bs, rem].                                                               *)
parse(bs, rem, argv, delim, elem) ==
  Remaining(ForTokens([bs |-> bs, is_option |-> [i \in 1..Len(argv) |-> FALSE]],
                      argv, 1, delim, elem),
            rem, argv)

(* getenv on an environment given as a function from names to values. *)
getenv(env, name) ==
  IF name \in DOMAIN env THEN [null |-> FALSE, str |-> env[name]]
  ELSE [null |-> TRUE, str |-> <<>>]

parseEnvOption_SeenOnly(b, str, delim, elem) ==
  IF ~str.null THEN setParsed(b, TRUE) ELSE b

(* Argh::parseEnv: the body of its loop, then the loop. *)
parseEnvOption(b, str, delim, elem) ==
  IF ~str.null THEN setValue(setParsed(b, TRUE), str.str, delim, elem) ELSE b

parseEnv(bs, env, delim, elem) ==
  [j \in 1..Len(bs) |-> parseEnvOption(bs[j], getenv(env, bs[j].o.m_name), delim, elem)]

Returned(r, argv, ret) == [bs |-> r.bs, rem |-> r.rem, argv |-> argv, ret |-> ret]

(* Argh::load once the lines argv were read.  With no line,                 *)
(* `&*argv.begin()` dereferences the end iterator of an empty vector, which *)
(* is undefined: a build without iterator checks passes a pointer that      *)
(* parse never reads, a build with checked iterators (checked) terminates   *)
(* the process.                                                             *)
loadLines(bs, rem, argv, delim, elem, checked) ==
  IF argv = <<>> /\ checked
    THEN [bs |-> bs, rem |-> rem, argv |-> argv, ret |-> "abort"]
    ELSE Returned(parse(bs, rem, argv, delim, elem), argv, "true")

load_NoEarlyReturn(bs, rem, file, delim, elem, checked) ==
  loadLines(bs, rem, getline(file.content, "\n"), delim, elem, checked)

(* Argh::load.  file is [good, content]; the result is [bs, rem, argv, ret] *)
(* with argv the lines handed to parse.                                     *)
load(bs, rem, file, delim, elem, checked) ==
  IF ~file.good THEN [bs |-> bs, rem |-> rem, argv |-> <<>>, ret |-> "false"]
  ELSE loadLines(bs, rem, getline(file.content, "\n"), delim, elem, checked)

RECURSIVE isParsedFrom_NameOnly(_, _, _)
isParsedFrom_NameOnly(opts, name, j) ==
  IF j > Len(opts) THEN FALSE
  ELSE IF name = opts[j].m_name THEN TRUE
  ELSE isParsedFrom_NameOnly(opts, name, j + 1)

(* Argh::isParsed. *)
RECURSIVE isParsedFrom(_, _, _)
isParsedFrom(opts, name, j) ==
  IF j > Len(opts) THEN FALSE
  ELSE IF name = opts[j].m_name /\ opts[j].m_parsed THEN TRUE
  ELSE isParsedFrom(opts, name, j + 1)

isParsed(name) == isParsedFrom(m_options, name, 1)

RECURSIVE missingRequiredFrom_Unseen(_, _, _)
missingRequiredFrom_Unseen(opts, j, missing) ==
  IF j > Len(opts) THEN missing
  ELSE missingRequiredFrom_Unseen(opts, j + 1,
         IF ~opts[j].m_parsed THEN Append(missing, opts[j].m_name) ELSE missing)

(* Argh::missingRequired: its loop from option j on, then the call. *)
RECURSIVE missingRequiredFrom(_, _, _)
missingRequiredFrom(opts, j, missing) ==
  IF j > Len(opts) THEN missing
  ELSE missingRequiredFrom(opts, j + 1,
         IF opts[j].m_required /\ ~opts[j].m_parsed
           THEN Append(missing, opts[j].m_name)
           ELSE missing)

missingRequired == missingRequiredFrom(m_options, 1, <<>>)

(* Argh::getRemainingArguments. *)
getRemainingArguments == m_remaining_args

(* `ss << m_default_val` for an int and for a bool (no boolalpha). *)
DigitChar == <<"0", "1", "2", "3", "4", "5", "6", "7", "8", "9">>

RECURSIVE NumPut(_)
NumPut(n) ==
  IF n < 10 THEN <<DigitChar[n + 1]>>
  ELSE Append(NumPut(n \div 10), DigitChar[(n % 10) + 1])

InsertInt(n) == IF n < 0 THEN <<"-">> \o NumPut(0 - n) ELSE NumPut(n)

InsertBool(v) == IF v THEN <<"1">> ELSE <<"0">>

(* getDefault of the option classes: the default as the usage text shows it. *)
OptionImpl_getDefault(o) ==
  CASE o.kind = "int" -> InsertInt(o.m_default_val)
    [] o.kind = "bool" -> InsertBool(o.m_default_val)
    [] OTHER -> o.m_default_val

OptionStringImpl_getDefault(o) == <<"\"">> \o o.m_default_val \o <<"\"">>

MultiOptionImpl_getDefault(o) == <<"\"">> \o o.m_default_val \o <<"\"">>

FlagImpl_getDefault(o) == <<>>

getDefault(o) ==
  CASE o.kind = "flag" -> FlagImpl_getDefault(o)
    [] o.kind \in {"int", "bool", "gstring", "sstring"} -> OptionImpl_getDefault(o)
    [] o.kind = "string" -> OptionStringImpl_getDefault(o)
    [] OTHER -> MultiOptionImpl_getDefault(o)

getName(o) == o.m_name

getMessage(o) == o.m_msg

getRequired(o) == o.m_required

(* getLongestName, getLongestDefault and getLongestMessage: their loops     *)
(* from option j on with the greatest length so far, then the calls.        *)
max(a, b) == IF a < b THEN b ELSE a

RECURSIVE getLongestNameFrom(_, _, _)
getLongestNameFrom(opts, j, ret) ==
  IF j > Len(opts) THEN ret
  ELSE getLongestNameFrom(opts, j + 1, max(ret, Len(getName(opts[j]))))

getLongestName == getLongestNameFrom(m_options, 1, 0)

RECURSIVE getLongestDefaultFrom(_, _, _)
getLongestDefaultFrom(opts, j, ret) ==
  IF j > Len(opts) THEN ret
  ELSE getLongestDefaultFrom(opts, j + 1, max(ret, Len(getDefault(opts[j]))))

getLongestDefault == getLongestDefaultFrom(m_options, 1, 0)

RECURSIVE getLongestMessageFrom(_, _, _)
getLongestMessageFrom(opts, j, ret) ==
  IF j > Len(opts) THEN ret
  ELSE getLongestMessageFrom(opts, j + 1, max(ret, Len(getMessage(opts[j]))))

getLongestMessage == getLongestMessageFrom(m_options, 1, 0)

setw_Right(w, field) ==
  IF Len(field) >= w THEN field
  ELSE [k \in 1..(w - Len(field)) |-> " "] \o field

(* `ret << std::setw(w) << field` with std::left in force: the field, then  *)
(* fill characters up to the width; a field as long as the width or longer  *)
(* is written whole.                                                        *)
setw(w, field) ==
  IF Len(field) >= w THEN field
  ELSE field \o [k \in 1..(w - Len(field)) |-> " "]

(* Argh::getUsage: the text one option adds, the loop from option j on,     *)
(* then the call.                                                           *)
UsageOf(o, name_space, default_space, msg_space) ==
  setw(name_space, getName(o))
    \o setw(default_space, getDefault(o))
    \o setw(msg_space, getMessage(o))
    \o (IF getRequired(o) THEN <<"R", "E", "Q", "U", "I", "R", "E", "D">>
        ELSE <<"N", "O", "T", " ", "R", "E", "Q", "U", "I", "R", "E", "D">>)
    \o <<"\n">>

RECURSIVE getUsageFrom(_, _, _, _, _, _)
getUsageFrom(opts, j, name_space, default_space, msg_space, ret) ==
  IF j > Len(opts) THEN ret
  ELSE getUsageFrom(opts, j + 1, name_space, default_space, msg_space,
                    ret \o UsageOf(opts[j], name_space, default_space, msg_space))

getUsage ==
  getUsageFrom(m_options, 1, getLongestName + 1, getLongestDefault + 1,
               getLongestMessage + 1, <<>>)

----------------------------------------------------------------------------
(* The inputs of the model. *)

RECURSIVE SeqsUpTo(_, _)
SeqsUpTo(S, n) ==
  IF n = 0 THEN {<<>>}
  ELSE SeqsUpTo(S, n - 1)
       \cup {Append(t, x) : t \in {u \in SeqsUpTo(S, n - 1) : Len(u) = n - 1}, x \in S}

ArgLists == SeqsUpTo(Tokens, MaxTokens)

(* The content of a text file written from the given lines, each ended by  *)
(* a newline.                                                               *)
RECURSIVE FileOf(_)
FileOf(lines) ==
  IF lines = <<>> THEN <<>>
  ELSE Head(lines) \o <<"\n">> \o FileOf(Tail(lines))

(* The files load is called on: one that cannot be opened, and the         *)
(* readable ones; lines is what the file was written from.                  *)
Files == {[good |-> FALSE, content |-> <<>>, lines |-> <<>>]}
         \cup {[good |-> TRUE, content |-> FileOf(l), lines |-> l] : l \in ArgLists}

EnvValues == {TokOne, TokLine}

Envs == UNION {[D -> EnvValues] : D \in SUBSET Names}

(* What the host passes to a registration of an option of type T: the      *)
(* default, and what its variable holds at that moment.                     *)
DefaultValues(T) ==
  CASE T = "int" -> {789}
    [] T = "bool" -> {FALSE}
    [] T = "string" -> {TokOld}
    [] T \in {"multiint", "multistring"} -> {TokMulti}

PriorValues(T) ==
  CASE T = "int" -> {0, 789}
    [] T = "bool" -> BOOLEAN
    [] T = "string" -> {<<>>, TokOne}
    [] T = "multiint" -> {<<>>, <<7>>}
    [] T = "multistring" -> {<<>>, <<TokOne>>}

(* Whether the build checks iterators matters for a file without lines only. *)
CheckedIterators(file) ==
  IF file.good /\ file.content = <<>> THEN BOOLEAN ELSE {FALSE}

NoEnv == [n \in {} |-> <<>>]

NoFile == [good |-> TRUE, content |-> <<>>, lines |-> <<>>]

(* The record of a call: op, the tokens handed to parse (argv), the         *)
(* environment (env), whether the file could be opened (good) and the       *)
(* lines it was written from (lines), what the bound variable held before   *)
(* a registration (var) and the result (ret).                               *)
NoCall == [op |-> "Argh", argv |-> <<>>, env |-> NoEnv, good |-> TRUE,
           lines |-> <<>>, var |-> <<>>, ret |-> "void"]

----------------------------------------------------------------------------
(* The state machine. *)

Init ==
  /\ header = "templated"
  /\ m_delim \in Delims
  /\ m_options = <<>>
  /\ cells = <<>>
  /\ m_remaining_args = <<>>
  /\ call = NoCall
  /\ ncalls = 0
  /\ pc = "run"

(* The host registers its options first and makes its calls afterwards.     *)
CanRegister == pc = "run" /\ ncalls = 0 /\ Len(m_options) < MaxOptions

(* m_options.push_back(new ...): b is the constructed option with the       *)
(* variable it wrote.                                                       *)
push_back(b, op, var) ==
  /\ m_options' = Append(m_options, b.o)
  /\ cells' = Append(cells, b.c)
  /\ call' = [NoCall EXCEPT !.op = op, !.var = var]

addFlag ==
  /\ CanRegister
  /\ \E flag \in BOOLEAN, name \in Names :
       push_back(FlagImpl(flag, name), "addFlag", flag)
  /\ UNCHANGED <<header, m_delim, m_remaining_args, ncalls, pc>>

addOption ==
  /\ CanRegister
  /\ \E name \in Names, required \in Required, T \in {"int", "bool"} :
       \E var \in PriorValues(T), default_val \in DefaultValues(T) :
         push_back(OptionImpl(T, var, default_val, name, required), "addOption", var)
  /\ UNCHANGED <<header, m_delim, m_remaining_args, ncalls, pc>>

addOptionString ==
  /\ CanRegister
  /\ \E name \in Names, required \in Required :
       \E var \in PriorValues("string"), default_val \in DefaultValues("string") :
         push_back(OptionImpl("string", var, default_val, name, required), "addOption", var)
  /\ UNCHANGED <<header, m_delim, m_remaining_args, ncalls, pc>>

addMultiOption ==
  /\ CanRegister
  /\ \E name \in Names, required \in Required, elem \in Indeterminate :
       \E var \in PriorValues("multiint"), default_vals \in DefaultValues("multiint") :
         push_back(MultiOptionImpl("multiint", var, default_vals, name, required,
                                   m_delim, elem),
                   "addMultiOption", var)
  /\ UNCHANGED <<header, m_delim, m_remaining_args, ncalls, pc>>

addMultiOptionString ==
  /\ CanRegister
  /\ \E name \in Names, required \in Required :
       \E var \in PriorValues("multistring"), default_vals \in DefaultValues("multistring") :
         push_back(MultiOptionImpl("multistring", var, default_vals, name, required,
                                   m_delim, 0),
                   "addMultiOption", var)
  /\ UNCHANGED <<header, m_delim, m_remaining_args, ncalls, pc>>

(* A call of parse, load or parseEnv returns r = [bs, rem, argv, ret]. *)
Call(r, op, env, file) ==
  /\ pc = "run"
  /\ ncalls < MaxCalls
  /\ ncalls' = ncalls + 1
  /\ m_options' = [i \in 1..Len(r.bs) |-> r.bs[i].o]
  /\ cells' = [i \in 1..Len(r.bs) |-> r.bs[i].c]
  /\ m_remaining_args' = r.rem
  /\ call' = [NoCall EXCEPT !.op = op, !.argv = r.argv, !.env = env,
                            !.good = file.good, !.lines = file.lines, !.ret = r.ret]
  /\ pc' = IF r.ret = "abort" THEN "aborted" ELSE "run"
  /\ UNCHANGED <<header, m_delim>>

Parse ==
  \E argv \in ArgLists, elem \in ElemValues(m_options) :
    Call(Returned(parse(Bindings, m_remaining_args, argv, m_delim, elem), argv, "void"),
         "parse", NoEnv, NoFile)

ParseEnv ==
  \E env \in Envs, elem \in ElemValues(m_options) :
    Call([bs |-> parseEnv(Bindings, env, m_delim, elem), rem |-> m_remaining_args,
          argv |-> <<>>, ret |-> "void"],
         "parseEnv", env, NoFile)

Load ==
  \E file \in Files, elem \in ElemValues(m_options), checked \in BOOLEAN :
    /\ checked \in CheckedIterators(file)
    /\ Call(load(Bindings, m_remaining_args, file, m_delim, elem, checked),
            "load", NoEnv, file)

Next ==
  \/ addFlag
  \/ addOption
  \/ addOptionString
  \/ addMultiOption
  \/ addMultiOptionString
  \/ Parse
  \/ ParseEnv
  \/ Load

Spec == Init /\ [][Next]_vars

(* The registry with required options: addOption is called with required   *)
(* true as well as false.                                                   *)
addOptionRequired ==
  /\ CanRegister
  /\ \E name \in Names, required \in BOOLEAN :
       \E var \in PriorValues("int"), default_val \in DefaultValues("int") :
         push_back(OptionImpl("int", var, default_val, name, required), "addOption", var)
  /\ UNCHANGED <<header, m_delim, m_remaining_args, ncalls, pc>>

NextRequired ==
  \/ addFlag
  \/ addOptionRequired
  \/ Parse
  \/ ParseEnv
  \/ Load

SpecRequired == Init /\ [][NextRequired]_vars

(* The registry of text and multi-value options, built with either header. *)
(* m_remaining_args exists in the templated header only.                    *)
InitValues ==
  /\ header \in Headers
  /\ m_delim \in Delims
  /\ m_options = <<>>
  /\ cells = <<>>
  /\ m_remaining_args = <<>>
  /\ call = NoCall
  /\ ncalls = 0
  /\ pc = "run"

(* addOption<T> with T = std::string: the generic OptionImpl of the header. *)
addOptionText ==
  /\ CanRegister
  /\ \E name \in Names, required \in Required :
       \E var \in PriorValues("string"), default_val \in DefaultValues("string") :
         push_back(OptionImpl(IF header = "argh.h" THEN "sstring" ELSE "gstring",
                              var, default_val, name, required),
                   "addOption", var)
  /\ UNCHANGED <<header, m_delim, m_remaining_args, ncalls, pc>>

(* addMultiOption<T> with T = std::string: the generic MultiOptionImpl. *)
addMultiOptionText ==
  /\ CanRegister
  /\ \E name \in Names, required \in Required :
       \E var \in PriorValues("multistring"), default_vals \in DefaultValues("multistring") :
         push_back(IF header = "argh.h"
                     THEN MultiOptionImplStd("smultistring", var, default_vals, name,
                                             required, m_delim)
                     ELSE MultiOptionImpl("gmultistring", var, default_vals, name,
                                          required, m_delim, 0),
                   "addMultiOption", var)
  /\ UNCHANGED <<header, m_delim, m_remaining_args, ncalls, pc>>

(* parse of a name followed by a value. *)
ParseValue ==
  \E name \in Names, val \in ValueTexts, elem \in ElemValues(m_options) :
    Call(Returned(parse(Bindings, m_remaining_args, <<name, val>>, m_delim, elem),
                  <<name, val>>, "void"),
         "parse", NoEnv, NoFile)

NextValues ==
  \/ addOptionString
  \/ addOptionText
  \/ addMultiOption
  \/ addMultiOptionString
  \/ addMultiOptionText
  \/ ParseValue

SpecValues == InitValues /\ [][NextValues]_vars

(* The first parse of a fresh registry, built with either header, on token  *)
(* lists long enough to hold a name, a second name and a value.             *)
ScanTokens == {NameA, NameB, TokOne}

ScanLists == SeqsUpTo(ScanTokens, MaxTokens + 1)

ParseOnce ==
  \E argv \in ScanLists, elem \in ElemValues(m_options) :
    /\ ncalls = 0
    /\ Call(Returned(parse(Bindings, m_remaining_args, argv, m_delim, elem), argv, "void"),
            "parse", NoEnv, NoFile)

NextScan ==
  \/ addFlag
  \/ addOption
  \/ addOptionString
  \/ ParseOnce

SpecScan == InitValues /\ [][NextScan]_vars

(* The registry as the usage text shows it: names and descriptions of       *)
(* different lengths, required and optional options.  Names, defaults and   *)
(* descriptions hold no line break.                                         *)
NameLong == <<"-", "-", "a", "b">>

MsgHi == <<"h", "i">>

UsageNames == {NameA, NameLong}

Messages == {<<>>, MsgHi}

(* The variables the host binds, empty or zero before registration. *)
FreshValues(T) ==
  CASE T = "int" -> {0}
    [] T = "bool" -> {FALSE}
    [] OTHER -> {<<>>}

addFlagMsg ==
  /\ CanRegister
  /\ \E flag \in {FALSE}, name \in UsageNames, msg \in Messages :
       push_back(Described(FlagImpl(flag, name), msg), "addFlag", flag)
  /\ UNCHANGED <<header, m_delim, m_remaining_args, ncalls, pc>>

addOptionMsg ==
  /\ CanRegister
  /\ \E name \in UsageNames, required \in BOOLEAN, msg \in Messages, T \in {"int", "bool"} :
       \E var \in FreshValues(T), default_val \in DefaultValues(T) :
         push_back(Described(OptionImpl(T, var, default_val, name, required), msg),
                   "addOption", var)
  /\ UNCHANGED <<header, m_delim, m_remaining_args, ncalls, pc>>

addOptionStringMsg ==
  /\ CanRegister
  /\ \E name \in UsageNames, required \in BOOLEAN, msg \in Messages :
       \E var \in FreshValues("string"), default_val \in DefaultValues("string") :
         push_back(Described(OptionImpl("string", var, default_val, name, required), msg),
                   "addOption", var)
  /\ UNCHANGED <<header, m_delim, m_remaining_args, ncalls, pc>>

addOptionTextMsg ==
  /\ CanRegister
  /\ \E name \in UsageNames, required \in BOOLEAN, msg \in Messages :
       \E var \in FreshValues("string"), default_val \in DefaultValues("string") :
         push_back(Described(OptionImpl("gstring", var, default_val, name, required), msg),
                   "addOption", var)
  /\ UNCHANGED <<header, m_delim, m_remaining_args, ncalls, pc>>

addMultiOptionMsg ==
  /\ CanRegister
  /\ \E name \in UsageNames, required \in BOOLEAN, msg \in Messages,
        elem \in Indeterminate :
       \E var \in FreshValues("multiint"), default_vals \in DefaultValues("multiint") :
         push_back(Described(MultiOptionImpl("multiint", var, default_vals, name,
                                             required, m_delim, elem), msg),
                   "addMultiOption", var)
  /\ UNCHANGED <<header, m_delim, m_remaining_args, ncalls, pc>>

(* parse of one of these names followed by a value: the usage text shows    *)
(* the defaults afterwards as before.                                       *)
ParseNamed ==
  \E name \in UsageNames, elem \in ElemValues(m_options) :
    Call(Returned(parse(Bindings, m_remaining_args, <<name, TokOne>>, m_delim, elem),
                  <<name, TokOne>>, "void"),
         "parse", NoEnv, NoFile)

NextUsage ==
  \/ addFlagMsg
  \/ addOptionMsg
  \/ addOptionStringMsg
  \/ addOptionTextMsg
  \/ addMultiOptionMsg
  \/ ParseNamed

SpecUsage == Init /\ [][NextUsage]_vars

----------------------------------------------------------------------------
(* Vocabulary of the properties. *)

Registered == 1..Len(m_options)

Kind(i) == m_options[i].kind

Name(i) == m_options[i].m_name

IsScalar(i) == Kind(i) \in {"int", "bool", "string"}

IsNumeric(i) == Kind(i) \in {"int", "bool"}

(* The options that take a value: all but the flags. *)
TakesValue(i) == Kind(i) # "flag"

(* The step is a call that hands the tokens call'.argv to parse. *)
ParsesTokens == call'.op \in {"parse", "load"} /\ call'.ret \in {"void", "true"}

(* Positions of argv holding the name of option i that have a next token. *)
ValuedAt(i, argv) == {k \in 1..(Len(argv) - 1) : argv[k] = Name(i)}

Occurs(i, argv) == \E k \in 1..Len(argv) : argv[k] = Name(i)

(* Whether text t converts to the type of the scalar option i, and to what. *)
Convertible(i, t) ==
  CASE Kind(i) = "int" -> ~ExtractInt(0, t).fail
    [] Kind(i) = "bool" -> ~ExtractBool(FALSE, t).fail
    [] Kind(i) = "string" -> TRUE

Converted(i, t) ==
  CASE Kind(i) = "int" -> ExtractInt(0, t).v
    [] Kind(i) = "bool" -> ExtractBool(FALSE, t).v
    [] Kind(i) = "string" -> t

HasValueIn(i, argv) == \E k \in ValuedAt(i, argv) : Convertible(i, argv[k + 1])

IsValueFrom(c, i, argv) ==
  \E k \in ValuedAt(i, argv) : Convertible(i, argv[k + 1]) /\ c = Converted(i, argv[k + 1])

(* The step is a call in which the name of option i was matched: among the  *)
(* tokens handed to parse, or as a key of the environment of parseEnv.      *)
MatchedBy(i) ==
  \/ ParsesTokens /\ Occurs(i, call'.argv)
  \/ call'.op = "parseEnv" /\ Name(i) \in DOMAIN call'.env

(* The k-th smallest element of the set S of numbers. *)
Nth(S, k) == CHOOSE i \in S : Cardinality({j \in S : j <= i}) = k

(* The names of the options of opts at the positions in S, in registration  *)
(* order.                                                                   *)
NamesAt(opts, S) == [k \in 1..Cardinality(S) |-> opts[Nth(S, k)].m_name]

RequiredUnseen(opts) ==
  {i \in 1..Len(opts) : opts[i].m_required /\ ~opts[i].m_parsed}

(* Whether text t is the name of a registered option. *)
IsName(t) == \E i \in Registered : Name(i) = t

(* The positions of argv that hold neither a registered name nor the token  *)
(* after one, and the tokens at these positions in their order.             *)
Unconsumed(argv) ==
  {i \in 1..Len(argv) : ~IsName(argv[i]) /\ (i > 1 => ~IsName(argv[i - 1]))}

TokensAt(argv, S) == [k \in 1..Cardinality(S) |-> argv[Nth(S, k)]]

IsTextScalar(i) == Kind(i) \in {"string", "gstring", "sstring"}

IsTextMulti(i) == Kind(i) \in {"multistring", "gmultistring", "smultistring"}

IsMulti(i) == IsTextMulti(i) \/ Kind(i) = "multiint"

(* The step hands tokens to parse among which the name of option i has a    *)
(* next token; LastValue is the last such next token, the one applied last. *)
GetsValue(i) == ParsesTokens /\ ValuedAt(i, call'.argv) # {}

LastValue(i) ==
  call'.argv[1 + CHOOSE k \in ValuedAt(i, call'.argv) :
                   \A l \in ValuedAt(i, call'.argv) : l <= k]

(* The text s cut at every occurrence of delim: one segment more than there *)
(* are delimiters.                                                          *)
RECURSIVE CutFrom(_, _, _, _)
CutFrom(s, delim, p, cur) ==
  IF p > Len(s) THEN <<cur>>
  ELSE IF s[p] = delim THEN <<cur>> \o CutFrom(s, delim, p + 1, <<>>)
  ELSE CutFrom(s, delim, p + 1, Append(cur, s[p]))

Cut(s, delim) == CutFrom(s, delim, 1, <<>>)

CountDelims(s, delim) == Cardinality({p \in 1..Len(s) : s[p] = delim})

(* The default of multi-value option i: its text cut at the delimiter, each *)
(* segment converted on its own.                                            *)
DefaultSequence(i) ==
  IF Kind(i) = "multistring" THEN getline(m_options[i].m_default_val, m_delim)
  ELSE [k \in 1..Len(getline(m_options[i].m_default_val, m_delim)) |->
          ExtractInt(0, getline(m_options[i].m_default_val, m_delim)[k]).v]

----------------------------------------------------------------------------
(* C1: as long as no parse, load or parseEnv call was made, every bound     *)
(* variable holds its declared default: false for a flag, the default       *)
(* value for a scalar option, and for a multi-value option the default      *)
(* text cut at the registry's delimiter and converted segment by segment,   *)
(* whatever the variable held before ("1|2" with delimiter '|' gives the    *)
(* two elements "1" and "2").  The defaults are texts whose segments the    *)
(* element type can convert.                                                *)
C1_DefaultsAfterRegistration ==
  ncalls = 0 =>
    \A i \in Registered :
      /\ Kind(i) = "flag" => cells[i] = FALSE
      /\ IsScalar(i) => cells[i] = m_options[i].m_default_val
      /\ Kind(i) \in {"multiint", "multistring"} => cells[i] = DefaultSequence(i)
      /\ (Kind(i) = "multistring" /\ m_delim = "|") => cells[i] = << <<"1">>, <<"2">> >>
      /\ (Kind(i) = "multiint" /\ m_delim = "|") => cells[i] = <<1, 2>>
      /\ ~m_options[i].m_parsed

C1_Witness ==
  /\ ncalls = 0
  /\ Len(m_options) = 2
  /\ Kind(1) = "int" /\ cells[1] = 789
  /\ Kind(2) = "multistring" /\ m_delim = "|"
  /\ call.op = "addMultiOption" /\ call.var = <<TokOne>>
  /\ cells[2] = << <<"1">>, <<"2">> >>

(* C2: load(file) then parse(args) on a registry that saw no other call:    *)
(* after the load a scalar option whose name is followed by a convertible   *)
(* value in the file holds that value; after the parse it holds the value   *)
(* from args when args has its name followed by a convertible value, else   *)
(* the file's value when the file has one, and its default when its name    *)
(* is in neither; and a seen option stays seen.                             *)
C2_FileThenArguments ==
  [][/\ (ncalls = 0 /\ call'.op = "load" /\ call'.ret = "true") =>
          \A i \in Registered :
            (IsScalar(i) /\ HasValueIn(i, call'.argv))
              => IsValueFrom(cells'[i], i, call'.argv)
     /\ (ncalls = 1 /\ call.op = "load" /\ call.ret = "true" /\ call'.op = "parse") =>
          \A i \in Registered :
            IsScalar(i) =>
              /\ HasValueIn(i, call'.argv) => IsValueFrom(cells'[i], i, call'.argv)
              /\ (~HasValueIn(i, call'.argv) /\ HasValueIn(i, call.argv))
                   => IsValueFrom(cells'[i], i, call.argv)
              /\ (~Occurs(i, call'.argv) /\ ~Occurs(i, call.argv))
                   => cells'[i] = m_options[i].m_default_val
              /\ m_options[i].m_parsed => m_options'[i].m_parsed
    ]_vars

(* C3: no step takes the seen flag of an option from true to false, and     *)
(* isParsed(name), once true, stays true.                                   *)
C3_SeenMonotonic ==
  [][/\ \A i \in Registered : m_options[i].m_parsed => m_options'[i].m_parsed
     /\ \A name \in Names : isParsed(name) => isParsed(name)'
    ]_vars

C3_Witness ==
  /\ ncalls = 2
  /\ call.op = "load" /\ call.ret = "false"
  /\ isParsed(NameA)
  /\ ~isParsed(NameB)

(* C4: the boolean bound by a flag is true exactly when the flag is seen.   *)
C4_FlagIffSeen ==
  \A i \in Registered : Kind(i) = "flag" => (cells[i] = TRUE <=> m_options[i].m_parsed)

C4_Witness ==
  /\ Len(m_options) = 2
  /\ Kind(1) = "flag" /\ Name(1) = NameA
  /\ Kind(2) = "flag" /\ Name(2) = NameB
  /\ call.op = "parse" /\ call.argv = <<NameA, TokLine>>
  /\ isParsed(NameA) /\ cells[1] = TRUE
  /\ ~isParsed(NameB) /\ cells[2] = FALSE

(* C5: when the name of an option that takes a value is the last token      *)
(* handed to parse and occurs nowhere else among the tokens, the call       *)
(* marks the option seen, leaves its bound variable as it was, and          *)
(* returns normally.                                                        *)
C5_DanglingName ==
  [][ParsesTokens =>
       \A i \in Registered :
         (/\ TakesValue(i)
          /\ Len(call'.argv) > 0
          /\ call'.argv[Len(call'.argv)] = Name(i)
          /\ ValuedAt(i, call'.argv) = {})
           => /\ m_options'[i].m_parsed
              /\ cells'[i] = cells[i]
              /\ pc' = "run"
    ]_vars

C5_Witness ==
  /\ Len(m_options) = 2
  /\ Kind(1) = "int" /\ Name(1) = NameA /\ cells[1] = 789
  /\ Kind(2) = "string" /\ Name(2) = NameB /\ cells[2] = TokOld
  /\ ncalls = 1
  /\ call.op = "parse" /\ call.argv = <<TokOne, NameB>>
  /\ isParsed(NameB)
  /\ ~isParsed(NameA)

(* C6: when every token that follows the name of a numeric scalar option    *)
(* among the tokens handed to parse fails to convert to the option's type,  *)
(* the call marks the option seen and leaves its bound variable as it was.  *)
C6_UnconvertibleKeepsValue ==
  [][ParsesTokens =>
       \A i \in Registered :
         (/\ IsNumeric(i)
          /\ ValuedAt(i, call'.argv) # {}
          /\ ~HasValueIn(i, call'.argv))
           => /\ m_options'[i].m_parsed
              /\ cells'[i] = cells[i]
              /\ pc' = "run"
    ]_vars

(* C7: when the only occurrence of the name of an option that takes a value *)
(* is immediately followed by the name of another registered option, the    *)
(* call marks the first option seen and leaves its bound variable as it     *)
(* was.                                                                     *)
C7_NameAfterName ==
  [][ParsesTokens =>
       \A i \in Registered :
         (/\ TakesValue(i)
          /\ \E k \in ValuedAt(i, call'.argv) :
               /\ ValuedAt(i, call'.argv) = {k}
               /\ call'.argv[Len(call'.argv)] # Name(i)
               /\ \E j \in Registered : Name(j) # Name(i) /\ call'.argv[k + 1] = Name(j))
           => /\ m_options'[i].m_parsed
              /\ cells'[i] = cells[i]
    ]_vars

(* C8: load of a file that cannot be opened returns false and changes no    *)
(* option, no bound variable and not the remaining arguments.               *)
C8_UnreadableFile ==
  [][(call'.op = "load" /\ ~call'.good) =>
       /\ call'.ret = "false"
       /\ m_options' = m_options
       /\ cells' = cells
       /\ m_remaining_args' = m_remaining_args
       /\ pc' = pc
    ]_vars

C8_Witness ==
  /\ ncalls = 2
  /\ call.op = "load" /\ ~call.good /\ call.ret = "false"
  /\ Len(m_options) = 1
  /\ Kind(1) = "int" /\ Name(1) = NameA /\ m_options[1].m_parsed
  /\ m_remaining_args = <<TokLine>>

(* C9: load of a file that can be opened returns true and leaves the        *)
(* options and their variables as parse of the lines the file was written   *)
(* from leaves them, each whole line being one token; with no line it       *)
(* returns true and changes no option and no variable.                      *)
C9_LoadIsParseOfLines ==
  [][(call'.op = "load" /\ call'.good) =>
       /\ call'.ret = "true"
       /\ \E elem \in ElemValues(m_options) :
            /\ m_options' = [i \in Registered |->
                 parse(Bindings, m_remaining_args, call'.lines, m_delim, elem).bs[i].o]
            /\ cells' = [i \in Registered |->
                 parse(Bindings, m_remaining_args, call'.lines, m_delim, elem).bs[i].c]
       /\ call'.lines = <<>> => (m_options' = m_options /\ cells' = cells)
    ]_vars

(* C10: isParsed(name) is true exactly when some registered option has      *)
(* that very name and is seen; it is false for a name that is not           *)
(* registered and as long as no parse, load or parseEnv call was made.      *)
C10_IsParsed ==
  \A name \in Tokens :
    /\ isParsed(name) <=> \E i \in Registered : Name(i) = name /\ m_options[i].m_parsed
    /\ (\A i \in Registered : Name(i) # name) => ~isParsed(name)
    /\ ncalls = 0 => ~isParsed(name)

C10_Witness ==
  /\ Len(m_options) = 2
  /\ Name(1) = NameA /\ ~m_options[1].m_parsed
  /\ Name(2) = NameB /\ m_options[2].m_parsed
  /\ isParsed(NameB)
  /\ ~isParsed(NameA)
  /\ ~isParsed(TokLine)

(* C11: missingRequired() lists, in registration order, the names of the   *)
(* options registered as required that are not seen, and never the name of *)
(* an option that is not required; and an option is seen after a call      *)
(* exactly when it was seen before or the call matched its name, so that   *)
(* the listed options are those no call ever matched.                      *)
C11_MissingRequired ==
  [][/\ missingRequired' = NamesAt(m_options', RequiredUnseen(m_options'))
     /\ \A k \in 1..Len(missingRequired') :
          \E i \in 1..Len(m_options') :
            m_options'[i].m_name = missingRequired'[k] /\ m_options'[i].m_required
     /\ ncalls' = ncalls + 1 =>
          \A i \in Registered :
            m_options'[i].m_parsed <=> (m_options[i].m_parsed \/ MatchedBy(i))
     /\ ncalls' = 0 => \A i \in 1..Len(m_options') : ~m_options'[i].m_parsed
    ]_vars

C11_Witness ==
  /\ ncalls = 2
  /\ Len(m_options) = 2
  /\ Name(1) = NameB /\ m_options[1].m_required /\ ~m_options[1].m_parsed
  /\ Name(2) = NameA /\ m_options[2].m_required /\ m_options[2].m_parsed
  /\ missingRequired = <<NameB>>

(* C12: after parse(tokens), getRemainingArguments() holds tokens of that   *)
(* call only: the remainder of the call computed from an empty sequence,   *)
(* with nothing left over from an earlier parse or load.                   *)
C12_RemainderOfLastParse ==
  [][call'.op = "parse" =>
       getRemainingArguments' = parse(Bindings, <<>>, call'.argv, m_delim, 0).rem
    ]_vars

(* C13: after a single parse(tokens) on a registry that saw no earlier     *)
(* call, getRemainingArguments() is the subsequence of tokens, in order    *)
(* and with repetitions, at the positions that hold no registered name     *)
(* and do not follow one; the first position is like any other.            *)
C13_RemainderIsUnconsumed ==
  [][(ncalls = 0 /\ call'.op = "parse") =>
       getRemainingArguments' = TokensAt(call'.argv, Unconsumed(call'.argv))
    ]_vars

C13_Witness ==
  /\ ncalls = 1
  /\ call.op = "parse" /\ call.argv = <<TokOne, NameA>>
  /\ Len(m_options) = 2
  /\ Name(1) = NameA /\ Name(2) = NameA
  /\ getRemainingArguments = <<TokOne>>

(* C14: a match of the name of a multi-value option that has a following   *)
(* token replaces the bound sequence: afterwards it holds what the new     *)
(* text gives on an empty sequence, one element per segment, and nothing   *)
(* of what it held before ("a b|c|d" with delimiter '|' gives the three    *)
(* elements "a b", "c", "d").                                              *)
C14_MultiValueReplaced ==
  [][\A i \in Registered :
       (IsMulti(i) /\ GetsValue(i)) =>
         /\ \E elem \in Indeterminate :
              cells'[i] = setValue([o |-> m_options[i], c |-> <<>>], LastValue(i),
                                   m_delim, elem).c
         /\ Len(cells'[i]) = Len(getline(LastValue(i), m_delim))
         /\ (Kind(i) = "multistring" /\ m_delim = "|" /\ LastValue(i) = TxtThree)
              => cells'[i] = << <<"a", " ", "b">>, <<"c">>, <<"d">> >>
    ]_vars

C14_Witness ==
  /\ ncalls = 2
  /\ call.op = "parse" /\ call.argv = <<NameA, TxtThree>>
  /\ m_delim = "|"
  /\ Len(m_options) = 2
  /\ Kind(1) = "multistring" /\ Name(1) = NameA
  /\ cells[1] = << <<"a", " ", "b">>, <<"c">>, <<"d">> >>
  /\ Kind(2) = "multiint" /\ Name(2) = NameA
  /\ Len(cells[2]) = 3

(* C15: a text value is stored verbatim: after a match with a following    *)
(* token the variable of a text option equals that whole token, and each   *)
(* element of a multi-value text option equals its whole segment, also     *)
(* for the options registered through addOption<T> and addMultiOption<T>.  *)
C15_TextVerbatim ==
  [][\A i \in Registered :
       GetsValue(i) =>
         /\ IsTextScalar(i) => cells'[i] = LastValue(i)
         /\ IsTextMulti(i) => cells'[i] = getline(LastValue(i), m_delim)
    ]_vars

(* C16: parse(t) called again right after parse(t) changes no bound        *)
(* variable and no seen flag.                                              *)
C16_ParseIdempotent ==
  [][(call.op = "parse" /\ call'.op = "parse" /\ call'.argv = call.argv) =>
       /\ cells' = cells
       /\ m_options' = m_options
    ]_vars

(* C18: after a value text is applied to a multi-value text option, the    *)
(* bound sequence is the text cut at every delimiter, empty segments       *)
(* included: one element more than the text has delimiters.                *)
C18_SegmentPerDelimiter ==
  [][\A i \in Registered :
       (Kind(i) \in {"multistring", "gmultistring"} /\ GetsValue(i)) =>
         /\ cells'[i] = Cut(LastValue(i), m_delim)
         /\ Len(cells'[i]) = CountDelims(LastValue(i), m_delim) + 1
    ]_vars

(* C19: after a value text is applied to a multi-value option of numeric   *)
(* element type, the element of every empty segment is zero.               *)
C19_EmptySegmentIsZero ==
  [][\A i \in Registered :
       (Kind(i) = "multiint" /\ GetsValue(i)) =>
         \A k \in 1..Len(getline(LastValue(i), m_delim)) :
           getline(LastValue(i), m_delim)[k] = <<>>
             => (k <= Len(cells'[i]) /\ cells'[i][k] = 0)
    ]_vars

(* C17: parseEnv marks every option whose name is a key of the environment *)
(* seen and gives it the environment value as parse of the name followed   *)
(* by that value does, overwriting what the variable held (the value "1"   *)
(* makes an int variable 1); every other option keeps its seen flag and    *)
(* its variable.                                                           *)
C17_ParseEnv ==
  [][call'.op = "parseEnv" =>
       \A i \in Registered :
         /\ Name(i) \in DOMAIN call'.env =>
              /\ m_options'[i].m_parsed
              /\ \E elem \in ElemValues(m_options) :
                   [o |-> m_options'[i], c |-> cells'[i]]
                     = parse(<<Bindings[i]>>, <<>>, <<Name(i), call'.env[Name(i)]>>,
                             m_delim, elem).bs[1]
              /\ (Kind(i) = "int" /\ call'.env[Name(i)] = TokOne) => cells'[i] = 1
              /\ Kind(i) = "string" => cells'[i] = call'.env[Name(i)]
         /\ Name(i) \notin DOMAIN call'.env =>
              (m_options'[i] = m_options[i] /\ cells'[i] = cells[i])
    ]_vars

C17_Witness ==
  /\ ncalls = 1
  /\ call.op = "parseEnv" /\ DOMAIN call.env = {NameA} /\ call.env[NameA] = TokOne
  /\ Len(m_options) = 2
  /\ Kind(1) = "int" /\ Name(1) = NameA /\ cells[1] = 1 /\ m_options[1].m_parsed
  /\ Kind(2) = "string" /\ Name(2) = NameB /\ cells[2] = TokOld
  /\ ~m_options[2].m_parsed

(* C20: every option is treated by parse as if it were the only one        *)
(* registered, whatever else shares its name and in whatever order: each   *)
(* token equal to its name marks it seen, and the token after it, when     *)
(* there is one, goes to its value setter.                                 *)
C20_SharedName ==
  [][ParsesTokens =>
       \A i \in Registered :
         /\ Occurs(i, call'.argv) => m_options'[i].m_parsed
         /\ \E elem \in ElemValues(m_options) :
              [o |-> m_options'[i], c |-> cells'[i]]
                = parse(<<Bindings[i]>>, <<>>, call'.argv, m_delim, elem).bs[1]
         /\ \A j \in Registered :
              (Name(j) = Name(i) /\ Kind(j) = Kind(i) /\ Kind(i) # "multiint"
               /\ GetsValue(i))
                => cells'[j] = cells'[i]
    ]_vars

C20_Witness ==
  /\ ncalls = 1
  /\ call.op = "parse" /\ call.argv = <<NameA, TokOne>>
  /\ Len(m_options) = 2
  /\ Kind(1) = "string" /\ Name(1) = NameA /\ cells[1] = TokOne /\ m_options[1].m_parsed
  /\ Kind(2) = "int" /\ Name(2) = NameA /\ cells[2] = 1 /\ m_options[2].m_parsed

(* C21: a call that hands tokens to parse changes neither the seen flag    *)
(* nor the bound variable of an option whose name is none of the tokens:   *)
(* the option keeps its default or what an earlier call wrote.             *)
C21_UnmatchedUntouched ==
  [][ParsesTokens =>
       \A i \in Registered :
         ~Occurs(i, call'.argv) =>
           (m_options'[i] = m_options[i] /\ cells'[i] = cells[i])
    ]_vars

C21_Witness ==
  /\ ncalls = 2
  /\ call.op = "parse" /\ call.argv = <<NameA, TokLine>>
  /\ Len(m_options) = 2
  /\ Kind(1) = "string" /\ Name(1) = NameA /\ cells[1] = TokLine
  /\ Kind(2) = "int" /\ Name(2) = NameB /\ cells[2] = 1 /\ m_options[2].m_parsed

(* C23: the scan for names leaves out no position.  After the first parse  *)
(* of a fresh registry an option is seen exactly when its name is one of   *)
(* the tokens, at whatever position, the position just handed over as the  *)
(* value of the preceding name included: parse(<<"--a", "--b", "1">>)      *)
(* marks --a and --b seen and gives --b the value "1".                     *)
C23_NoPositionSkipped ==
  [][(call'.op = "parse" /\ ncalls = 0) =>
       /\ \A i \in Registered :
            m_options'[i].m_parsed <=> Occurs(i, call'.argv)
       /\ call'.argv = <<NameA, NameB, TokOne>> =>
            \A i \in Registered :
              /\ Name(i) \in {NameA, NameB} => m_options'[i].m_parsed
              /\ (Name(i) = NameB /\ Kind(i) = "string") => cells'[i] = TokOne
              /\ (Name(i) = NameB /\ Kind(i) = "int") => cells'[i] = 1
    ]_vars

C23_Witness ==
  /\ ncalls = 1
  /\ call.op = "parse" /\ call.argv = <<NameA, NameB, TokOne>>
  /\ Len(m_options) = 2
  /\ Kind(1) = "string" /\ Name(1) = NameA /\ m_options[1].m_parsed /\ cells[1] = NameB
  /\ Kind(2) = "int" /\ Name(2) = NameB /\ m_options[2].m_parsed /\ cells[2] = 1

Widest(S) == IF S = {} THEN 0 ELSE CHOOSE n \in S : \A m \in S : m <= n

NameWidth == Widest({Len(Name(i)) : i \in Registered}) + 1

DefaultWidth == Widest({Len(getDefault(m_options[i])) : i \in Registered}) + 1

DescriptionWidth == Widest({Len(m_options[i].m_msg) : i \in Registered}) + 1

LeftAligned(field, w) == [k \in 1..w |-> IF k <= Len(field) THEN field[k] ELSE " "]

Marker(i) ==
  IF m_options[i].m_required THEN <<"R", "E", "Q", "U", "I", "R", "E", "D">>
  ELSE <<"N", "O", "T", " ", "R", "E", "Q", "U", "I", "R", "E", "D">>

UsageLines == Cut(getUsage, "\n")

C22_UsageAligned ==
  /\ Len(UsageLines) = Len(m_options) + 1
  /\ UsageLines[Len(UsageLines)] = <<>>
  /\ \A i \in Registered :
       /\ Len(Name(i)) < NameWidth
       /\ Len(getDefault(m_options[i])) < DefaultWidth
       /\ Len(m_options[i].m_msg) < DescriptionWidth
       /\ UsageLines[i] = LeftAligned(Name(i), NameWidth)
                            \o LeftAligned(getDefault(m_options[i]), DefaultWidth)
                            \o LeftAligned(m_options[i].m_msg, DescriptionWidth)
                            \o Marker(i)
       /\ SubSeq(UsageLines[i], NameWidth + DefaultWidth + DescriptionWidth + 1,
                 Len(UsageLines[i])) = Marker(i)

C22_Witness ==
  /\ Len(m_options) = 2
  /\ Kind(1) = "flag" /\ Name(1) = NameA /\ m_options[1].m_msg = <<>>
  /\ Kind(2) = "int" /\ Name(2) = NameLong /\ m_options[2].m_msg = MsgHi
  /\ m_options[2].m_required
  /\ getUsage = <<"-", "-", "a", " ", " ", " ", " ", " ", " ", " ", " ", " ",
                  "N", "O", "T", " ", "R", "E", "Q", "U", "I", "R", "E", "D", "\n",
                  "-", "-", "a", "b", " ", "7", "8", "9", " ", "h", "i", " ",
                  "R", "E", "Q", "U", "I", "R", "E", "D", "\n">>

====
